---- MODULE Spec2Model ----
(***************************************************************************)
(* Response cache, request fingerprint and generation orchestrator of the  *)
(* chat backend (src/app/server/utils/cache.py,                            *)
(* src/backend/app/services/chat.py), the document text extractor         *)
(* (src/app/server/utils/file_utils.py) and the stream worker of the       *)
(* desktop client (src/app/client).                                        *)
(*                                                                         *)
(* The specifications share the definitions below:                         *)
(*   SpecKey   - make_request_key applied to pairs of payloads             *)
(*   SpecCache - get_cached_response / store_cached_response called        *)
(*               directly with arbitrary arguments, and the clock          *)
(*   Spec      - generate_chat_response and generate_chat_response_stream  *)
(*               running on the single event loop of the server            *)
(*   SpecExtract - extract_docx_text / extract_xlsx_text applied to files  *)
(*   SpecClient  - ChatStreamWorker.run and the handlers of MainWindow     *)
(* Time is counted in whole days (the unit of ttl_days).                   *)
(***************************************************************************)
EXTENDS Integers, Sequences, FiniteSets, TLC

VARIABLES
    ext,        \* SpecExtract: the file given to an extractor and the state of the call
    client,     \* SpecClient: the desktop client (stream worker and main window)
    keyIn,      \* SpecKey: the pair of payloads given to make_request_key
    keyOut,     \* SpecKey: the pair of keys computed, <<>> before the call
    now,        \* datetime.now(), in days
    cache,      \* table cachedresponse: sequence of rows in insertion (rowid) order
    nextId,     \* source of fresh uuid4 identifiers
    envTtl,     \* environment variable CACHE_TTL_DAYS
    lastOp,     \* SpecCache: the last direct call of the cache API and its result
    convs,      \* table conversation (committed ids)
    messages,   \* table message (committed rows, in created_at order)
    rq,         \* per request: position, payload, session, counters, outcome
    loop        \* the request the event loop is running, 0 when it is free

vars == <<ext, client, keyIn, keyOut, now, cache, nextId, envTtl, lastOp, convs, messages, rq, loop>>

-----------------------------------------------------------------------------
(* Bounds *)

MaxTime == 2
MaxFiles == 2
MaxOps == 3

-----------------------------------------------------------------------------
(* Optional values: None is the empty tuple, a value v is <<v>> *)

None == <<>>
Some(v) == <<v>>
IsSome(o) == o /= <<>>
Get(o) == o[1]

-----------------------------------------------------------------------------
(* The file system seen by the server.  Contents are named; get_file_hash  *)
(* is SHA-256 of the content, taken as collision-free: one digest per      *)
(* content.                                                                *)

Paths == {"a.pdf", "a2.pdf", "b.docx", "b.txt", "gone.pdf"}

\* pathlib.Path(path).exists()
PathExists(path) == path /= "gone.pdf"

FileContent(path) ==
    CASE path = "a.pdf" -> "contentA"
      [] path = "a2.pdf" -> "contentA"
      [] path = "b.docx" -> "contentB"
      [] path = "b.txt" -> "contentB"
      [] OTHER -> "nothing"

Sha256Hex(content) ==
    CASE content = "contentA" -> "digestA"
      [] content = "contentB" -> "digestB"
      [] OTHER -> "digest0"

get_file_hash(path) == Sha256Hex(FileContent(path))

_compute_file_hash(path) ==
    IF PathExists(path) THEN get_file_hash(path) ELSE path

-----------------------------------------------------------------------------
(* make_request_key *)

CACHE_KEY_SCHEMA_VERSION == "v2"

\* a fingerprint that forgets the order of the attachments
HashAllUnordered(paths) == {_compute_file_hash(paths[i]) : i \in 1..Len(paths)}

RECURSIVE HashAll(_)
HashAll(paths) ==
    IF paths = <<>> THEN <<>>
    ELSE <<_compute_file_hash(Head(paths))>> \o HashAll(Tail(paths))

\* a fingerprint that serialises an absent instructions field as null
OrEmptyKeepsNone(instructions) == IF IsSome(instructions) THEN Get(instructions) ELSE "null"

\* getattr(payload, "instructions", "") or ""
OrEmpty(instructions) == IF IsSome(instructions) THEN Get(instructions) ELSE ""

\* json.dumps(normalized, sort_keys=True): the members in key order.  The
\* SHA-256 of the serialisation is taken as collision-free, so the key is
\* identified with the serialised record.
make_request_key(payload) ==
    << <<"file_hashes", HashAll(payload.file_paths)>>,
       <<"input", payload.input>>,
       <<"instructions", OrEmpty(payload.instructions)>>,
       <<"model", payload.model>>,
       <<"schema_version", CACHE_KEY_SCHEMA_VERSION>> >>

Models == {"gemini-a", "gemini-b"}
Inputs == {"hi", "bye"}
InstructionValues == {None, Some(""), Some("be brief")}

RECURSIVE SeqsUpTo(_, _)
SeqsUpTo(S, n) ==
    IF n = 0 THEN {<<>>}
    ELSE LET shorter == SeqsUpTo(S, n - 1)
         IN shorter \cup {Append(s, x) : s \in {t \in shorter : Len(t) = n - 1}, x \in S}

Payloads ==
    [model : Models, input : Inputs, instructions : InstructionValues,
     file_paths : SeqsUpTo(Paths, MaxFiles)]

-----------------------------------------------------------------------------
(* The cache store: table cachedresponse *)

EmptyMeta == <<>>
DEFAULT_TTL_DAYS == 30

\* int(os.getenv("CACHE_TTL_DAYS", "30")); a value that is no integer raises
\* and the except branch gives 30
EnvValues == {"unset", "abc", "0", "1", "2", "3000000"}

EnvTtlDays(env) ==
    CASE env = "unset" -> DEFAULT_TTL_DAYS
      [] env = "0" -> 0
      [] env = "1" -> 1
      [] env = "2" -> 2
      [] env = "3000000" -> 3000000
      [] OTHER -> DEFAULT_TTL_DAYS

\* positions of the rows select(...).where(request_key == key) returns
Matching(rows, key) == {i \in 1..Len(rows) : rows[i].request_key = key}

\* session.exec(stmt).first(): the matching row of least rowid, 0 when none
FirstMatch(rows, key) ==
    IF Matching(rows, key) = {} THEN 0
    ELSE CHOOSE i \in Matching(rows, key) : \A j \in Matching(rows, key) : i <= j

RemoveAt(rows, i) == [j \in 1..(Len(rows) - 1) |-> IF j < i THEN rows[j] ELSE rows[j + 1]]

\* an expiry test with the comparison turned round
ExpiredReversed(row, t) == IsSome(row.expires_at) /\ Get(row.expires_at) > t

\* cached.expires_at and cached.expires_at < datetime.now()
Expired(row, t) == IsSome(row.expires_at) /\ Get(row.expires_at) < t

\* a lookup that reports an expired row as absent but leaves it in the table
get_cached_response_keeps_expired(rows, key, t, deleteOk) ==
    LET i == FirstMatch(rows, key) IN
    IF i = 0 \/ Expired(rows[i], t)
    THEN [result |-> None, rows |-> rows, committed |-> FALSE]
    ELSE [result |-> Some(rows[i]), rows |-> rows, committed |-> FALSE]

\* get_cached_response: the entry returned, the table afterwards and whether
\* session.commit() ran.  deleteOk = FALSE is session.delete/commit raising
\* inside the inner try, which is swallowed.
get_cached_response(rows, key, t, deleteOk) ==
    LET i == FirstMatch(rows, key) IN
    IF i = 0 THEN [result |-> None, rows |-> rows, committed |-> FALSE]
    ELSE IF Expired(rows[i], t)
         THEN [result |-> None,
               rows |-> IF deleteOk THEN RemoveAt(rows, i) ELSE rows,
               committed |-> deleteOk]
         ELSE [result |-> Some(rows[i]), rows |-> rows, committed |-> FALSE]

\* expires_at = datetime.now() + timedelta(days=ttl_days) if ttl_days > 0 else None
\* (the reads of datetime.now() within one call are taken as one instant)
ExpiresAt(ttlDays, t) == IF ttlDays > 0 THEN Some(t + ttlDays) ELSE None

\* ttl_days argument, or the configured default when it is None
EffectiveTtl(ttlArg, env) == IF IsSome(ttlArg) THEN Get(ttlArg) ELSE EnvTtlDays(env)

\* datetime.max (31 December 9999) in days after day 0 of the clock
DatetimeMaxDay == 2912138

\* datetime.now() + timedelta(days=ttl_days) raises OverflowError when the
\* sum is past datetime.max; it is only evaluated for ttl_days > 0
DateOverflows(ttlDays, t) == ttlDays > 0 /\ t + ttlDays > DatetimeMaxDay

\* a write that leaves response_text as it was
WrittenFieldsKeepsText(row, model, inputText, instructions, fileHashes, responseText, ttlArg, env, t) ==
    [row EXCEPT !.model = model,
                !.input_text = inputText,
                !.instructions = instructions,
                !.file_hashes = fileHashes,
                !.meta_data = EmptyMeta,
                !.created_at = t,
                !.expires_at = ExpiresAt(EffectiveTtl(ttlArg, env), t)]

\* the fields store_cached_response writes, on update and on insert alike
WrittenFields(row, model, inputText, instructions, fileHashes, responseText, ttlArg, env, t) ==
    [row EXCEPT !.model = model,
                !.input_text = inputText,
                !.instructions = instructions,
                !.file_hashes = fileHashes,
                !.response_text = responseText,
                !.meta_data = EmptyMeta,
                !.created_at = t,
                !.expires_at = ExpiresAt(EffectiveTtl(ttlArg, env), t)]

BlankRow(id, key) ==
    [id |-> id, request_key |-> key, model |-> "", input_text |-> "",
     instructions |-> None, file_hashes |-> <<>>, response_text |-> <<>>,
     meta_data |-> EmptyMeta, created_at |-> 0, expires_at |-> None]

\* a store that inserts a new row whether or not the key is present
store_always_inserts(rows, key, model, inputText, instructions, fileHashes, responseText, ttlArg, env, t, newId) ==
    Append(rows, WrittenFields(BlankRow(newId, key), model, inputText, instructions,
                               fileHashes, responseText, ttlArg, env, t))

\* a store that leaves the row of a key that is already present untouched
store_keeps_first(rows, key, model, inputText, instructions, fileHashes, responseText, ttlArg, env, t, newId) ==
    IF FirstMatch(rows, key) /= 0 THEN rows
    ELSE Append(rows, WrittenFields(BlankRow(newId, key), model, inputText, instructions,
                                    fileHashes, responseText, ttlArg, env, t))

\* store_cached_response: the table after the call.  The computation of
\* expires_at comes before the select: when it raises nothing is written.
store_cached_response(rows, key, model, inputText, instructions, fileHashes, responseText, ttlArg, env, t, newId) ==
    LET i == FirstMatch(rows, key) IN
    IF DateOverflows(EffectiveTtl(ttlArg, env), t) THEN rows
    ELSE IF i /= 0
    THEN [rows EXCEPT ![i] = WrittenFields(rows[i], model, inputText, instructions,
                                           fileHashes, responseText, ttlArg, env, t)]
    ELSE Append(rows, WrittenFields(BlankRow(newId, key), model, inputText, instructions,
                                    fileHashes, responseText, ttlArg, env, t))

-----------------------------------------------------------------------------
(* Schemas *)

\* class Status(str, Enum)
Status == {"pending", "completed", "failed"}

\* ChatResponse(conversation_id=..., output=..., status=s, ...): pydantic
\* validates the status field against the enumeration and raises
\* ValidationError for any other value
ChatResponseValid(s) == s \in Status

-----------------------------------------------------------------------------
(* The orchestrator *)

MaxChunks == 2

\* Two requests are enough for every race between requests; they are taken
\* in the order of their numbers.
Reqs == {1, 2}

\* Texts are sequences of fragments, so that concatenation is \o and the
\* empty string is <<>>.  response.text of the backend may be None.
BackendTexts == {None, Some(<<"t1">>)}
ChunkTexts == {<<>>, <<"x">>}

\* response.text or ""
TextOrEmpty(t) == IF IsSome(t) THEN Get(t) ELSE <<>>

NoFiles == [model |-> "gemini-a", input |-> "hi", instructions |-> None, file_paths |-> <<>>]
TwoFiles == [model |-> "gemini-a", input |-> "bye", instructions |-> Some("be brief"),
             file_paths |-> <<"a.pdf", "b.docx">>]
\* the same contents under a name whose extension get_mime_type rejects
BadFile == [TwoFiles EXCEPT !.file_paths = <<"a.pdf", "b.txt">>]
GoneFile == [model |-> "gemini-a", input |-> "bye", instructions |-> None,
             file_paths |-> <<"gone.pdf">>]
OrchPayloads == {NoFiles, TwoFiles, BadFile, GoneFile}

\* request.conversation_id: absent, or the id 0 chosen by the client
ConversationIds == {None, Some(0)}

IdleRq ==
    [pc |-> "idle", kind |-> "single", payload |-> NoFiles, conv |-> 0,
     pendConv |-> FALSE, key |-> <<>>, file_hashes |-> <<>>,
     full_text |-> <<>>, out |-> <<>>, chunks |-> 0,
     status |-> "", text |-> <<>>, error |-> "",
     genCalls |-> 0, uploadCalls |-> 0, backendFailed |-> FALSE,
     writeSeq |-> 0, cache0 |-> <<>>,
     rowAtCheck |-> FALSE, hit |-> None, rowAtFallback |-> FALSE, fbHit |-> None]

\* Message(conversation_id=..., role=..., content={"text": ...}); tx is the
\* request whose session holds the row uncommitted, 0 once committed
MessageRow(conv, role, text, tx) ==
    [conversation_id |-> conv, role |-> role, text |-> text, tx |-> tx]

\* a commit that leaves the rows of the session pending
CommitRowsKeepsPending(msgs, r) == msgs

\* Each request has its own session.  A session is modelled as the source
\* uses it: flushed rows stay private until commit, rollback and close drop
\* them; a storage error that is swallowed leaves the session usable, and
\* sessions do not block one another.
\* session.commit(): the rows the session of r holds become visible to all
CommitRows(msgs, r) ==
    [i \in 1..Len(msgs) |-> IF msgs[i].tx = r THEN [msgs[i] EXCEPT !.tx = 0] ELSE msgs[i]]

\* session.rollback(), and the session closing with an open transaction
RollbackRows(msgs, r) == SelectSeq(msgs, LAMBDA m : m.tx /= r)

CommitConvs(cs, q) == IF q.pendConv THEN cs \cup {q.conv} ELSE cs

\* generate_chat_response / generate_chat_response_stream up to the flush of
\* the user message and make_request_key
Start(r, kind, payload, cid) ==
    /\ loop = 0
    /\ rq[r].pc = "idle"
    /\ \A other \in Reqs : other < r => rq[other].pc /= "idle"
    /\ LET conv == IF IsSome(cid) THEN Get(cid) ELSE r
           missing == conv \notin convs
       IN /\ rq' = [rq EXCEPT ![r] =
                     [IdleRq EXCEPT !.pc = "check", !.kind = kind, !.payload = payload,
                                    !.conv = conv,
                                    !.pendConv = missing /\ kind = "single",
                                    !.key = make_request_key(payload),
                                    !.cache0 = cache]]
          /\ convs' = IF missing /\ kind = "stream" THEN convs \cup {conv} ELSE convs
          /\ messages' = Append(messages, MessageRow(conv, "user", <<payload.input>>, r))
    /\ loop' = r
    /\ UNCHANGED <<ext, client, keyIn, keyOut, now, cache, nextId, envTtl, lastOp>>

\* a lookup whose storage error ends the request
CacheCheckRaiseFatal(r, lookupRaises, deleteOk) ==
    /\ loop = r
    /\ rq[r].pc = "check"
    /\ LET q == rq[r]
           res == get_cached_response(cache, q.key, now, deleteOk)
           seen == [q EXCEPT !.rowAtCheck = FirstMatch(cache, q.key) /= 0]
       IN IF lookupRaises
          THEN /\ rq' = [rq EXCEPT ![r] = [seen EXCEPT !.pc = "failed", !.error = "StorageError"]]
               /\ messages' = RollbackRows(messages, r)
               /\ loop' = 0
               /\ UNCHANGED <<cache, convs>>
          ELSE IF ~IsSome(res.result)
          THEN /\ cache' = res.rows
               /\ messages' = IF res.committed THEN CommitRows(messages, r) ELSE messages
               /\ convs' = IF res.committed THEN CommitConvs(convs, q) ELSE convs
               /\ rq' = [rq EXCEPT ![r] =
                          [seen EXCEPT !.pc = "build",
                                       !.pendConv = q.pendConv /\ ~res.committed]]
               /\ UNCHANGED loop
          ELSE LET text == Get(res.result).response_text
                   found == [seen EXCEPT !.hit = Some(text), !.pendConv = FALSE]
               IN /\ cache' = res.rows
                  /\ messages' = CommitRows(
                         Append(messages, MessageRow(q.conv, "assistant", text, r)), r)
                  /\ convs' = CommitConvs(convs, q)
                  /\ IF q.kind = "stream"
                     THEN /\ rq' = [rq EXCEPT ![r] =
                                     [found EXCEPT !.pc = "done", !.out = <<text>>]]
                          /\ loop' = 0
                     ELSE IF ChatResponseValid("cached")
                     THEN /\ rq' = [rq EXCEPT ![r] =
                                     [found EXCEPT !.pc = "done", !.status = "cached",
                                                   !.text = text]]
                          /\ loop' = 0
                     ELSE /\ rq' = [rq EXCEPT ![r] = [found EXCEPT !.pc = "build"]]
                          /\ UNCHANGED loop
    /\ UNCHANGED <<ext, client, keyIn, keyOut, now, nextId, envTtl, lastOp>>

\* the try block around get_cached_response at CacheCheck.  lookupRaises is
\* a storage error of the select, which the except branch logs.
CacheCheck(r, lookupRaises, deleteOk) ==
    /\ loop = r
    /\ rq[r].pc = "check"
    /\ LET q == rq[r]
           res == get_cached_response(cache, q.key, now, deleteOk)
           seen == [q EXCEPT !.rowAtCheck = FirstMatch(cache, q.key) /= 0]
       IN IF lookupRaises
          THEN /\ rq' = [rq EXCEPT ![r] = [seen EXCEPT !.pc = "build"]]
               /\ UNCHANGED <<cache, messages, convs, loop>>
          ELSE IF ~IsSome(res.result)
          THEN /\ cache' = res.rows
               /\ messages' = IF res.committed THEN CommitRows(messages, r) ELSE messages
               /\ convs' = IF res.committed THEN CommitConvs(convs, q) ELSE convs
               /\ rq' = [rq EXCEPT ![r] =
                          [seen EXCEPT !.pc = "build",
                                       !.pendConv = q.pendConv /\ ~res.committed]]
               /\ UNCHANGED loop
          ELSE LET text == Get(res.result).response_text
                   found == [seen EXCEPT !.hit = Some(text), !.pendConv = FALSE]
               IN /\ cache' = res.rows
                  /\ messages' = CommitRows(
                         Append(messages, MessageRow(q.conv, "assistant", text, r)), r)
                  /\ convs' = CommitConvs(convs, q)
                  /\ IF q.kind = "stream"
                     THEN /\ rq' = [rq EXCEPT ![r] =
                                     [found EXCEPT !.pc = "done", !.out = <<text>>]]
                          /\ loop' = 0
                     ELSE IF ChatResponseValid("cached")
                     THEN /\ rq' = [rq EXCEPT ![r] =
                                     [found EXCEPT !.pc = "done", !.status = "cached",
                                                   !.text = text]]
                          /\ loop' = 0
                     ELSE /\ rq' = [rq EXCEPT ![r] = [found EXCEPT !.pc = "build"]]
                          /\ UNCHANGED loop
    /\ UNCHANGED <<ext, client, keyIn, keyOut, now, nextId, envTtl, lastOp>>

\* p.suffix.lower() == ".docx"
IsDocx(path) == path \in {"b.docx"}

\* a get_mime_type that maps every extension
MimeSupportedAll(path) == TRUE

\* get_mime_type: the extensions of the match statement; any other raises
\* ValueError
MimeSupported(path) == path \in {"a.pdf", "a2.pdf", "b.docx", "gone.pdf"}

\* _attach_files_to_contents: the hashes collected, the uploads made and the
\* exception raised ("" when none), files taken in list order.  uploadOk is
\* whether client.files.upload succeeds.
RECURSIVE AttachFiles(_, _, _, _)
AttachFiles(paths, uploadOk, hashes, uploads) ==
    IF paths = <<>> THEN [hashes |-> hashes, uploads |-> uploads, error |-> ""]
    ELSE LET p == Head(paths)
             hs == Append(hashes, get_file_hash(p))
         IN IF ~PathExists(p)
            THEN [hashes |-> hashes, uploads |-> uploads, error |-> "FileNotFoundError"]
            ELSE IF IsDocx(p)
            THEN AttachFiles(Tail(paths), uploadOk, hs, uploads)
            ELSE IF ~MimeSupported(p)
            THEN [hashes |-> hs, uploads |-> uploads, error |-> "ValueError"]
            ELSE IF ~uploadOk
            THEN [hashes |-> hs, uploads |-> uploads + 1, error |-> "UploadError"]
            ELSE AttachFiles(Tail(paths), uploadOk, hs, uploads + 1)

\* _gather_history_contents and _attach_files_to_contents, outside any try:
\* an exception ends the request and the session closes
BuildContent(r, uploadOk) ==
    /\ loop = r
    /\ rq[r].pc = "build"
    /\ LET q == rq[r]
           att == AttachFiles(q.payload.file_paths, uploadOk, <<>>, 0)
       IN IF att.error /= ""
          THEN /\ rq' = [rq EXCEPT ![r] =
                          [q EXCEPT !.pc = "failed", !.error = att.error,
                                    !.uploadCalls = att.uploads, !.pendConv = FALSE]]
               /\ messages' = RollbackRows(messages, r)
               /\ loop' = 0
          ELSE /\ rq' = [rq EXCEPT ![r] =
                          [q EXCEPT !.pc = IF q.kind = "single" THEN "invoke" ELSE "stream",
                                    !.file_hashes = att.hashes,
                                    !.uploadCalls = att.uploads]]
               /\ UNCHANGED <<messages, loop>>
    /\ UNCHANGED <<ext, client, keyIn, keyOut, now, cache, nextId, envTtl, lastOp, convs>>

\* the rank of the next write to the cache among the requests' writes
NextWriteSeq == 1 + Cardinality({o \in Reqs : rq[o].writeSeq > 0})

\* the best-effort store after a generation: storeRaises is a storage error,
\* logged and swallowed
StoreAfter(rows, q, text, storeRaises) ==
    IF storeRaises THEN rows
    ELSE store_cached_response(rows, q.key, q.payload.model, q.payload.input,
                               q.payload.instructions, q.file_hashes, text,
                               None, envTtl, now, nextId)

\* a store whose error is not swallowed: it reaches the except branch of the
\* backend call
InvokeOkStoreFatal(r, t, storeRaises) ==
    /\ loop = r
    /\ rq[r].pc = "invoke"
    /\ LET q == rq[r]
           text == TextOrEmpty(t)
           called == [q EXCEPT !.genCalls = q.genCalls + 1, !.pendConv = FALSE]
       IN /\ messages' = CommitRows(
                 Append(messages, MessageRow(q.conv, "assistant", text, r)), r)
          /\ convs' = CommitConvs(convs, q)
          /\ cache' = StoreAfter(cache, q, text, storeRaises)
          /\ nextId' = IF Len(cache') > Len(cache) THEN nextId + 1 ELSE nextId
          /\ IF storeRaises
             THEN /\ rq' = [rq EXCEPT ![r] = [called EXCEPT !.pc = "fallback"]]
                  /\ UNCHANGED loop
             ELSE /\ rq' = [rq EXCEPT ![r] =
                             [called EXCEPT !.pc = "done", !.status = "completed",
                                            !.text = text, !.writeSeq = NextWriteSeq]]
                  /\ loop' = 0
    /\ UNCHANGED <<ext, client, keyIn, keyOut, now, envTtl, lastOp>>

\* client.models.generate_content returns: persist, store, respond
InvokeOk(r, t, storeRaises) ==
    /\ loop = r
    /\ rq[r].pc = "invoke"
    /\ LET q == rq[r]
           text == TextOrEmpty(t)
           called == [q EXCEPT !.genCalls = q.genCalls + 1, !.pendConv = FALSE]
       IN /\ messages' = CommitRows(
                 Append(messages, MessageRow(q.conv, "assistant", text, r)), r)
          /\ convs' = CommitConvs(convs, q)
          /\ cache' = StoreAfter(cache, q, text, storeRaises)
          /\ nextId' = IF Len(cache') > Len(cache) THEN nextId + 1 ELSE nextId
          /\ IF ChatResponseValid("completed")
             THEN /\ rq' = [rq EXCEPT ![r] =
                             [called EXCEPT !.pc = "done", !.status = "completed",
                                            !.text = text,
                                            !.writeSeq = IF storeRaises THEN 0
                                                         ELSE NextWriteSeq]]
                  /\ loop' = 0
             ELSE /\ rq' = [rq EXCEPT ![r] =
                             [called EXCEPT !.pc = "fallback",
                                            !.writeSeq = IF storeRaises THEN 0
                                                         ELSE NextWriteSeq]]
                  /\ UNCHANGED loop
    /\ UNCHANGED <<ext, client, keyIn, keyOut, now, envTtl, lastOp>>

\* a backend call that is tried a second time before giving up
InvokeFailRetry(r) ==
    /\ loop = r
    /\ rq[r].pc = "invoke"
    /\ rq' = [rq EXCEPT ![r] = [@ EXCEPT !.pc = "fallback", !.genCalls = @ + 2,
                                        !.pendConv = FALSE, !.backendFailed = TRUE]]
    /\ messages' = RollbackRows(messages, r)
    /\ UNCHANGED <<ext, client, keyIn, keyOut, now, cache, nextId, envTtl, lastOp, convs, loop>>

\* client.models.generate_content raises: session.rollback()
InvokeFail(r) ==
    /\ loop = r
    /\ rq[r].pc = "invoke"
    /\ rq' = [rq EXCEPT ![r] = [@ EXCEPT !.pc = "fallback", !.genCalls = @ + 1,
                                        !.pendConv = FALSE, !.backendFailed = TRUE]]
    /\ messages' = RollbackRows(messages, r)
    /\ UNCHANGED <<ext, client, keyIn, keyOut, now, cache, nextId, envTtl, lastOp, convs, loop>>

\* the except branch: a second lookup, then the bare raise
Fallback(r, lookupRaises, deleteOk) ==
    /\ loop = r
    /\ rq[r].pc = "fallback"
    /\ LET q == rq[r]
           res == get_cached_response(cache, q.key, now, deleteOk)
           seen == [q EXCEPT !.rowAtFallback = FirstMatch(cache, q.key) /= 0]
           raised == [seen EXCEPT !.pc = "failed", !.error = "BackendError"]
       IN IF lookupRaises
          THEN /\ rq' = [rq EXCEPT ![r] = raised]
               /\ UNCHANGED <<cache, messages>>
          ELSE IF ~IsSome(res.result)
          THEN /\ cache' = res.rows
               /\ rq' = [rq EXCEPT ![r] = raised]
               /\ UNCHANGED messages
          ELSE LET text == Get(res.result).response_text
                   found == [seen EXCEPT !.fbHit = Some(text)]
               IN /\ cache' = res.rows
                  /\ IF q.kind = "stream"
                     THEN /\ rq' = [rq EXCEPT ![r] =
                                     [found EXCEPT !.pc = "done",
                                                   !.out = Append(q.out, text)]]
                          /\ UNCHANGED messages
                     ELSE /\ messages' = Append(messages,
                                 MessageRow(q.conv, "assistant", text, 0))
                          /\ rq' = [rq EXCEPT ![r] =
                                     IF ChatResponseValid("cached_offline")
                                     THEN [found EXCEPT !.pc = "done",
                                                        !.status = "cached_offline",
                                                        !.text = text]
                                     ELSE [found EXCEPT !.pc = "failed",
                                                        !.error = "BackendError"]]
    /\ loop' = 0
    /\ UNCHANGED <<ext, client, keyIn, keyOut, now, nextId, envTtl, lastOp, convs>>

\* a loop that keeps only the last chunk in full_text
StreamChunkKeepsLast(r, c) ==
    /\ loop \in {0, r}
    /\ rq[r].pc = "stream"
    /\ rq[r].chunks < MaxChunks
    /\ rq' = [rq EXCEPT ![r] =
               [@ EXCEPT !.genCalls = 1, !.chunks = @ + 1,
                         !.full_text = IF c = <<>> THEN @ ELSE c,
                         !.out = IF c = <<>> THEN @ ELSE Append(@, c)]]
    /\ loop' = IF c = <<>> THEN r ELSE 0
    /\ UNCHANGED <<ext, client, keyIn, keyOut, now, cache, nextId, envTtl, lastOp, convs, messages>>

\* one iteration of the loop over generate_content_stream: a chunk with text
\* is accumulated and yielded, which suspends the generator and frees the
\* event loop; a chunk without text is skipped
StreamChunk(r, c) ==
    /\ loop \in {0, r}
    /\ rq[r].pc = "stream"
    /\ rq[r].chunks < MaxChunks
    /\ rq' = [rq EXCEPT ![r] =
               [@ EXCEPT !.genCalls = 1, !.chunks = @ + 1,
                         !.full_text = IF c = <<>> THEN @ ELSE @ \o c,
                         !.out = IF c = <<>> THEN @ ELSE Append(@, c)]]
    /\ loop' = IF c = <<>> THEN r ELSE 0
    /\ UNCHANGED <<ext, client, keyIn, keyOut, now, cache, nextId, envTtl, lastOp, convs, messages>>

\* the backend stream ends: persist the assistant message and store full_text
StreamEnd(r, storeRaises) ==
    /\ loop \in {0, r}
    /\ rq[r].pc = "stream"
    /\ LET q == rq[r]
       IN /\ messages' = CommitRows(
                 Append(messages, MessageRow(q.conv, "assistant", q.full_text, r)), r)
          /\ cache' = StoreAfter(cache, q, q.full_text, storeRaises)
          /\ nextId' = IF Len(cache') > Len(cache) THEN nextId + 1 ELSE nextId
          /\ rq' = [rq EXCEPT ![r] =
                     [q EXCEPT !.pc = "done", !.genCalls = 1,
                               !.writeSeq = IF storeRaises THEN 0 ELSE NextWriteSeq]]
    /\ loop' = 0
    /\ UNCHANGED <<ext, client, keyIn, keyOut, now, envTtl, lastOp, convs>>

\* the backend stream raises, at the call or between chunks: session.rollback()
StreamFail(r) ==
    /\ loop \in {0, r}
    /\ rq[r].pc = "stream"
    /\ rq' = [rq EXCEPT ![r] = [@ EXCEPT !.pc = "fallback", !.genCalls = 1,
                                        !.backendFailed = TRUE]]
    /\ messages' = RollbackRows(messages, r)
    /\ loop' = r
    /\ UNCHANGED <<ext, client, keyIn, keyOut, now, cache, nextId, envTtl, lastOp, convs>>

\* a generator that stores what it has accumulated when it is closed
InterruptPersists(r) ==
    /\ loop = 0
    /\ rq[r].pc = "stream"
    /\ rq[r].out /= <<>>
    /\ rq' = [rq EXCEPT ![r] = [@ EXCEPT !.pc = "interrupted"]]
    /\ messages' = CommitRows(
           Append(messages, MessageRow(rq[r].conv, "assistant", rq[r].full_text, r)), r)
    /\ UNCHANGED <<ext, client, keyIn, keyOut, now, cache, nextId, envTtl, lastOp, convs, loop>>

\* the consumer goes away while the generator is suspended at the yield of
\* the stream loop: the generator is closed there, GeneratorExit is not an
\* Exception, so neither the except branch nor the code after the loop
\* runs, and the session closes with its transaction open
Interrupt(r) ==
    /\ loop = 0
    /\ rq[r].pc = "stream"
    /\ rq[r].out /= <<>>
    /\ rq' = [rq EXCEPT ![r] = [@ EXCEPT !.pc = "interrupted"]]
    /\ messages' = RollbackRows(messages, r)
    /\ UNCHANGED <<ext, client, keyIn, keyOut, now, cache, nextId, envTtl, lastOp, convs, loop>>

\* the clock advances
Tick ==
    /\ now < MaxTime
    /\ now' = now + 1
    /\ UNCHANGED <<ext, client, keyIn, keyOut, cache, nextId, envTtl, lastOp, convs, messages, rq, loop>>

\* the last direct call of the cache API (SpecCache); stored is the text of
\* the last store of each key
NoOp ==
    [op |-> "none", n |-> 0, key |-> "", t |-> 0, deleteOk |-> TRUE, result |-> None,
     args |-> <<>>, ttl |-> None, stored |-> [k \in {"k1", "k2"} |-> None]]

Init ==
    /\ keyIn = <<>>
    /\ keyOut = <<>>
    /\ ext = <<>>
    /\ client = <<>>
    /\ now = 0
    /\ cache = <<>>
    /\ nextId = 1
    /\ envTtl \in {"unset", "1"}
    /\ lastOp = NoOp
    /\ convs = {0}
    /\ messages = <<>>
    /\ rq = [r \in Reqs |-> IdleRq]
    /\ loop = 0

Next ==
    \/ \E r \in Reqs, kind \in {"single", "stream"}, payload \in OrchPayloads,
          cid \in ConversationIds : Start(r, kind, payload, cid)
    \/ \E r \in Reqs, lookupRaises \in BOOLEAN, deleteOk \in BOOLEAN :
          CacheCheck(r, lookupRaises, deleteOk)
    \/ \E r \in Reqs, uploadOk \in BOOLEAN : BuildContent(r, uploadOk)
    \/ \E r \in Reqs, t \in BackendTexts, storeRaises \in BOOLEAN : InvokeOk(r, t, storeRaises)
    \/ \E r \in Reqs : InvokeFail(r)
    \/ \E r \in Reqs, lookupRaises \in BOOLEAN, deleteOk \in BOOLEAN :
          Fallback(r, lookupRaises, deleteOk)
    \/ \E r \in Reqs, c \in ChunkTexts : StreamChunk(r, c)
    \/ \E r \in Reqs, storeRaises \in BOOLEAN : StreamEnd(r, storeRaises)
    \/ \E r \in Reqs : StreamFail(r)
    \/ \E r \in Reqs : Interrupt(r)
    \/ Tick

Spec == Init /\ [][Next]_vars

-----------------------------------------------------------------------------
(* SpecKey: make_request_key on every pair of payloads *)

InitKey ==
    /\ keyIn \in Payloads \X Payloads
    /\ keyOut = <<>>
    /\ ext = <<>>
    /\ client = <<>>
    /\ now = 0
    /\ cache = <<>>
    /\ nextId = 1
    /\ envTtl = "unset"
    /\ lastOp = NoOp
    /\ convs = {0}
    /\ messages = <<>>
    /\ rq = [r \in Reqs |-> IdleRq]
    /\ loop = 0

ComputeKeys ==
    /\ keyOut = <<>>
    /\ keyOut' = <<make_request_key(keyIn[1]), make_request_key(keyIn[2])>>
    /\ UNCHANGED <<ext, client, keyIn, now, cache, nextId, envTtl, lastOp, convs, messages, rq, loop>>

NextKey == ComputeKeys

SpecKey == InitKey /\ [][NextKey]_vars

-----------------------------------------------------------------------------
(* SpecCache: the cache API called directly *)

CacheKeys == {"k1", "k2"}
TtlArgs == {None, Some(-1), Some(0), Some(1)}

\* the request echoed into a row and the text stored with it
StoreArgs ==
    { [model |-> "gemini-a", input_text |-> "hi", instructions |-> None,
       file_hashes |-> <<>>, response_text |-> <<"t1">>],
      [model |-> "gemini-b", input_text |-> "bye", instructions |-> Some("be brief"),
       file_hashes |-> <<"digestA">>, response_text |-> <<"t2">>] }

InitCache ==
    /\ keyIn = <<>>
    /\ keyOut = <<>>
    /\ ext = <<>>
    /\ client = <<>>
    /\ now = 0
    /\ cache = <<>>
    /\ nextId = 1
    /\ envTtl \in EnvValues
    /\ lastOp = NoOp
    /\ convs = {0}
    /\ messages = <<>>
    /\ rq = [r \in Reqs |-> IdleRq]
    /\ loop = 0

\* get_cached_response(session, k)
CallGet(k, deleteOk) ==
    /\ lastOp.n < MaxOps
    /\ LET res == get_cached_response(cache, k, now, deleteOk)
       IN /\ cache' = res.rows
          /\ lastOp' = [lastOp EXCEPT !.op = "get", !.n = @ + 1, !.key = k, !.t = now,
                                      !.deleteOk = deleteOk, !.result = res.result]
    /\ UNCHANGED <<ext, client, keyIn, keyOut, now, nextId, envTtl, convs, messages, rq, loop>>

\* store_cached_response(session, k, ..., ttl_days=ttlArg), returning or
\* raising OverflowError
CallStore(k, a, ttlArg) ==
    /\ lastOp.n < MaxOps
    /\ cache' = store_cached_response(cache, k, a.model, a.input_text, a.instructions,
                                      a.file_hashes, a.response_text, ttlArg, envTtl,
                                      now, nextId)
    /\ nextId' = IF Len(cache') > Len(cache) THEN nextId + 1 ELSE nextId
    /\ lastOp' = IF DateOverflows(EffectiveTtl(ttlArg, envTtl), now)
                  THEN [lastOp EXCEPT !.op = "store_raised", !.n = @ + 1, !.key = k,
                                      !.t = now, !.args = a, !.ttl = ttlArg,
                                      !.result = None]
                  ELSE [lastOp EXCEPT !.op = "store", !.n = @ + 1, !.key = k, !.t = now,
                                      !.args = a, !.ttl = ttlArg, !.result = None,
                                      !.stored[k] =
                                          Some([response_text |-> a.response_text,
                                                expires_at |->
                                                    cache'[FirstMatch(cache', k)].expires_at])]
    /\ UNCHANGED <<ext, client, keyIn, keyOut, now, envTtl, convs, messages, rq, loop>>

NextCache ==
    \/ \E k \in CacheKeys, deleteOk \in BOOLEAN : CallGet(k, deleteOk)
    \/ \E k \in CacheKeys, a \in StoreArgs, ttlArg \in TtlArgs : CallStore(k, a, ttlArg)
    \/ Tick

SpecCache == InitCache /\ [][NextCache]_vars

-----------------------------------------------------------------------------
(* The document text extractor.  A file is a ZIP archive or not; an        *)
(* archive holds XML parts, each parsable or not.  Text is a sequence of   *)
(* tokens: words, and the whitespace characters tab and newline.           *)

MaxNodes == 2

Tab == "\t"
Newline == "\n"

\* the elements of a paragraph: text runs (one with empty text), tab, break
DocxNodes == {"t:Hello", "t:World", "t:", "tab", "br"}

\* node.text of a text run
NodeText(n) ==
    CASE n = "t:Hello" -> <<"Hello">>
      [] n = "t:World" -> <<"World">>
      [] OTHER -> <<>>

IsTextRun(n) == n \in {"t:Hello", "t:World", "t:"}

\* str.strip(): leading and trailing whitespace removed
Strip(text) ==
    LET keep == {i \in 1..Len(text) : text[i] \notin {Tab, Newline}}
    IN IF keep = {} THEN <<>>
       ELSE LET first == CHOOSE i \in keep : \A j \in keep : i <= j
                last == CHOOSE i \in keep : \A j \in keep : j <= i
            IN SubSeq(text, first, last)

\* sep.join(texts)
RECURSIVE Join(_, _)
Join(texts, sep) ==
    IF texts = <<>> THEN <<>>
    ELSE IF Len(texts) = 1 THEN texts[1]
    ELSE texts[1] \o sep \o Join(Tail(texts), sep)

\* the loop over paragraph.iter(): what each element appends to run_text
RECURSIVE RunText(_)
RunText(nodes) ==
    IF nodes = <<>> THEN <<>>
    ELSE LET n == Head(nodes)
             piece == IF IsTextRun(n) THEN NodeText(n)
                      ELSE IF n = "tab" THEN <<Tab>>
                      ELSE IF n = "br" THEN <<Newline>>
                      ELSE <<>>
         IN piece \o RunText(Tail(nodes))

\* text = "".join(run_text).strip()
ParagraphText(nodes) == Strip(RunText(nodes))

\* the non-empty texts of the text runs of a list of elements, one per run
RECURSIVE TextParts(_)
TextParts(nodes) ==
    IF nodes = <<>> THEN <<>>
    ELSE (IF IsTextRun(Head(nodes)) /\ NodeText(Head(nodes)) /= <<>>
          THEN <<NodeText(Head(nodes))>> ELSE <<>>) \o TextParts(Tail(nodes))

\* all elements of a part, paragraph after paragraph
RECURSIVE AllNodes(_)
AllNodes(paragraphs) ==
    IF paragraphs = <<>> THEN <<>> ELSE Head(paragraphs) \o AllNodes(Tail(paragraphs))

\* an XML part of an archive: not in the archive, not well-formed, or a body
AbsentPart == [state |-> "absent", body |-> <<>>]
UnparsablePart == [state |-> "unparsable", body |-> <<>>]
XmlPart(body) == [state |-> "xml", body |-> body]

\* _extract_text_from_docx_xml: ParseError gives "", else the paragraph
\* texts joined by newline, else the text runs of the part
_extract_text_from_docx_xml(part) ==
    IF part.state = "unparsable" THEN [error |-> "", text |-> <<>>]
    ELSE LET all == [i \in 1..Len(part.body) |-> ParagraphText(part.body[i])]
             paragraph_texts == SelectSeq(all, LAMBDA t : t /= <<>>)
         IN [error |-> "",
             text |-> IF paragraph_texts /= <<>>
                      THEN Join(paragraph_texts, <<Newline>>)
                      ELSE Strip(Join(TextParts(AllNodes(part.body)), <<Newline>>))]

\* a file handed to an extractor
DocxFile(zip, document, header) ==
    [kind |-> "docx", zip |-> zip, document |-> document, header |-> header,
     sheet |-> AbsentPart]
XlsxFile(zip, sheet) ==
    [kind |-> "xlsx", zip |-> zip, document |-> AbsentPart, header |-> AbsentPart,
     sheet |-> sheet]

\* extract_docx_text of src/app/server: zipfile.ZipFile raises BadZipFile;
\* the parts in preferred order, the main document first; the non-empty
\* chunks joined by a blank line
extract_docx_text(file) ==
    IF ~file.zip THEN [error |-> "BadZipFile", text |-> <<>>]
    ELSE LET part_names == SelectSeq(<<file.document, file.header>>,
                                     LAMBDA p : p.state /= "absent")
             chunks == [i \in 1..Len(part_names) |->
                           _extract_text_from_docx_xml(part_names[i]).text]
             text_chunks == SelectSeq(chunks, LAMBDA c : c /= <<>>)
         IN [error |-> "", text |-> Strip(Join(text_chunks, <<Newline, Newline>>))]

\* extract_docx_text of src/backend: reads word/document.xml only, one line
\* per text run, and re-raises whatever fails
backend_extract_docx_text(file) ==
    IF ~file.zip THEN [error |-> "BadZipFile", text |-> <<>>]
    ELSE IF file.document.state = "absent" THEN [error |-> "KeyError", text |-> <<>>]
    ELSE IF file.document.state = "unparsable" THEN [error |-> "ParseError", text |-> <<>>]
    ELSE [error |-> "",
          text |-> Strip(Join(TextParts(AllNodes(file.document.body)), <<Newline>>))]

-----------------------------------------------------------------------------
(* XLSX worksheets.  A worksheet is a number of row elements, some of them *)
(* without any non-empty cell; row i with cells is rendered as a line      *)
(* identified by i.                                                        *)

XLSX_MAX_ROWS == 600
OverRows == 100

TruncationMarker == <<"[...] truncated", 0>>
RowLine(i) == <<"row", i>>

SheetLens ==
    {0, 1, XLSX_MAX_ROWS - 1, XLSX_MAX_ROWS, XLSX_MAX_ROWS + 1, XLSX_MAX_ROWS + 2,
     XLSX_MAX_ROWS + OverRows}

\* the row elements without cells: none, the second, the last, or both
Sheets ==
    UNION {{[len |-> n, gaps |-> g \cap (1..n)] : g \in {{}, {2}, {n}, {2, n}}} :
           n \in SheetLens}

\* a loop that breaks at the limit without the marker row
XlsxRowNoMarker ==
    /\ ext /= <<>>
    /\ ext.pc = "rows"
    /\ ext.i <= ext.file.sheet.body.len
    /\ LET i == ext.i
           rows == IF i \in ext.file.sheet.body.gaps THEN ext.rows
                   ELSE Append(ext.rows, RowLine(i))
       IN IF Len(rows) >= XLSX_MAX_ROWS
          THEN ext' = [ext EXCEPT !.pc = "done", !.rows = rows,
                                  !.chunk = Some([header |-> "Sheet 1 (sheet1)",
                                                  lines |-> rows])]
          ELSE ext' = [ext EXCEPT !.i = i + 1, !.rows = rows]
    /\ UNCHANGED <<client, keyIn, keyOut, now, cache, nextId, envTtl, lastOp, convs,
                   messages, rq, loop>>

\* extract_xlsx_text up to the call of _extract_rows_from_xlsx_sheet_xml:
\* BadZipFile is re-raised, a workbook without worksheet parts gives "", a
\* worksheet that does not parse gives no rows and is skipped
XlsxOpen ==
    /\ ext /= <<>>
    /\ ext.pc = "start"
    /\ ext.file.kind = "xlsx"
    /\ ext' = IF ~ext.file.zip
              THEN [ext EXCEPT !.pc = "done", !.error = "BadZipFile"]
              ELSE IF ext.file.sheet.state \in {"absent", "unparsable"}
              THEN [ext EXCEPT !.pc = "done"]
              ELSE [ext EXCEPT !.pc = "rows", !.i = 1]
    /\ UNCHANGED <<client, keyIn, keyOut, now, cache, nextId, envTtl, lastOp, convs,
                   messages, rq, loop>>

\* one iteration of the loop of _extract_rows_from_xlsx_sheet_xml over the
\* row elements; at the limit the marker is appended and the loop breaks,
\* and extract_xlsx_text puts the sheet header before the rows
XlsxRow ==
    /\ ext /= <<>>
    /\ ext.pc = "rows"
    /\ ext.i <= ext.file.sheet.body.len
    /\ LET i == ext.i
           rows == IF i \in ext.file.sheet.body.gaps THEN ext.rows
                   ELSE Append(ext.rows, RowLine(i))
       IN IF Len(rows) >= XLSX_MAX_ROWS
          THEN ext' = [ext EXCEPT !.pc = "done",
                                  !.rows = Append(rows, TruncationMarker),
                                  !.chunk = Some([header |-> "Sheet 1 (sheet1)",
                                                  lines |-> Append(rows, TruncationMarker)])]
          ELSE ext' = [ext EXCEPT !.i = i + 1, !.rows = rows]
    /\ UNCHANGED <<client, keyIn, keyOut, now, cache, nextId, envTtl, lastOp, convs,
                   messages, rq, loop>>

\* the loop has gone through every row element: the rows are returned, and
\* a sheet without rows is skipped
XlsxReturn ==
    /\ ext /= <<>>
    /\ ext.pc = "rows"
    /\ ext.i > ext.file.sheet.body.len
    /\ ext' = [ext EXCEPT !.pc = "done",
                          !.chunk = IF ext.rows = <<>> THEN None
                                    ELSE Some([header |-> "Sheet 1 (sheet1)",
                                               lines |-> ext.rows])]
    /\ UNCHANGED <<client, keyIn, keyOut, now, cache, nextId, envTtl, lastOp, convs,
                   messages, rq, loop>>

\* extract_docx_text, of either source tree, on a DOCX file
ExtractDocx ==
    /\ ext /= <<>>
    /\ ext.pc = "start"
    /\ ext.file.kind = "docx"
    /\ LET res == IF ext.impl = "server" THEN extract_docx_text(ext.file)
                  ELSE backend_extract_docx_text(ext.file)
       IN ext' = [ext EXCEPT !.pc = "done", !.error = res.error, !.text = res.text]
    /\ UNCHANGED <<client, keyIn, keyOut, now, cache, nextId, envTtl, lastOp, convs,
                   messages, rq, loop>>

Paragraphs == SeqsUpTo(DocxNodes, MaxNodes)
Bodies == SeqsUpTo(Paragraphs, 2)

DocxFiles ==
    {DocxFile(FALSE, AbsentPart, AbsentPart)} \cup
    {DocxFile(TRUE, d, h) :
        d \in {AbsentPart, UnparsablePart} \cup {XmlPart(b) : b \in Bodies},
        h \in {AbsentPart, UnparsablePart, XmlPart(<< <<"t:World">> >>)}}

XlsxFiles ==
    {XlsxFile(FALSE, AbsentPart), XlsxFile(TRUE, AbsentPart), XlsxFile(TRUE, UnparsablePart)}
    \cup {XlsxFile(TRUE, XmlPart(s)) : s \in Sheets}

ExtractCall(impl, file) ==
    [impl |-> impl, file |-> file, pc |-> "start", i |-> 0, rows |-> <<>>,
     error |-> "", text |-> <<>>, chunk |-> None]

InitExtract ==
    /\ ext \in {ExtractCall(impl, f) : impl \in {"server", "backend"}, f \in DocxFiles}
               \cup {ExtractCall("server", f) : f \in XlsxFiles}
    /\ client = <<>>
    /\ keyIn = <<>>
    /\ keyOut = <<>>
    /\ now = 0
    /\ cache = <<>>
    /\ nextId = 1
    /\ envTtl = "unset"
    /\ lastOp = NoOp
    /\ convs = {0}
    /\ messages = <<>>
    /\ rq = [r \in Reqs |-> IdleRq]
    /\ loop = 0

NextExtract == ExtractDocx \/ XlsxOpen \/ XlsxRow \/ XlsxReturn

SpecExtract == InitExtract /\ [][NextExtract]_vars

-----------------------------------------------------------------------------
(* The desktop client: ChatStreamWorker.run on its thread, the answer of    *)
(* POST /chat/stream as ChatApiClient.stream sees it, and the handlers of   *)
(* MainWindow on the GUI thread.  Signals of the worker reach the window    *)
(* through the queue of the GUI thread, in the order they were emitted.     *)

MaxSends == 2
MaxStreamChunks == 2

\* the conversations the server lists, and the uuid4 of the n-th send of a
\* new chat
ServerConvs == {<<"conv", "A">>, <<"conv", "B">>}
NewConversationId(n) == <<"uuid", n>>

\* the chunks of a generation, and the event the router writes when
\* generate_chat_response_stream raises: f"data:Error: {str(e)}\n\n"
StreamChunks == {"x"}
ErrorChunk == "Error: boom"

\* ChatMessage(role, text)
ChatMessage(role, text) == [role |-> role, text |-> text]

\* what GET /conversation/history/{id} may return
Histories ==
    {<<>>,
     <<ChatMessage("user", <<"q">>)>>,
     <<ChatMessage("user", <<"q">>), ChatMessage("assistant", <<"a">>)>>}

\* StreamResult(conversation_id, text, status)
StreamResult(conv, text, status) == [conversation_id |-> conv, text |-> text, status |-> status]

\* the worker: where run is, what it has received and emitted.  srv is the
\* state of the server's event generator, serverFailed that
\* generate_chat_response_stream ended by raising.
NoWorker ==
    [pc |-> "none", conv |-> <<>>, received |-> 0, full_text |-> <<>>,
     signals |-> <<>>, result |-> None, srv |-> "open", serverFailed |-> FALSE,
     usedGenerate |-> FALSE]

\* ChatStreamWorker(self.client, request) and start()
NewWorker(conv) == [NoWorker EXCEPT !.pc = "stream", !.conv = conv]

\* QThread.isRunning()
IsRunning(w) == w.pc \in {"stream", "generate"}

\* run returns after emitting a terminal signal; QThread then emits finished
Terminal(c, sig, result) ==
    [c EXCEPT !.w = [@ EXCEPT !.pc = "returned", !.signals = Append(@, sig),
                              !.result = result],
              !.queue = @ \o <<[sig |-> sig, result |-> result], [sig |-> "finished", result |-> None]>>]

\* _raise_for_status on the response of client.stream(): for a status of 400
\* or more the handler of HTTPStatusError calls response.json() on a
\* response whose body was not read; httpx raises ResponseNotRead there, a
\* RuntimeError that is neither ValueError nor httpx.HTTPError nor ApiError
StreamStatusErrorIsApiError == FALSE

\* _new_chat: state.reset_chat()
NewChat ==
    /\ client /= <<>>
    /\ client' = [client EXCEPT !.cur = None, !.msgs = <<>>, !.view = None]
    /\ UNCHANGED <<ext, keyIn, keyOut, now, cache, nextId, envTtl, lastOp, convs,
                   messages, rq, loop>>

\* _on_conversation_selected and _load_history: the list stays enabled
\* while a worker runs.  ok is whether get_history returned.
LoadHistory(conv, ok, history) ==
    /\ client /= <<>>
    /\ client' = IF ok
                 THEN [client EXCEPT !.cur = Some(conv), !.msgs = history,
                                     !.view = Some(conv)]
                 ELSE client
    /\ UNCHANGED <<ext, keyIn, keyOut, now, cache, nextId, envTtl, lastOp, convs,
                   messages, rq, loop>>

\* _send_message with a non-empty prompt.  The send button and the input box
\* are disabled while busy.  The request is taken as built: the keyword
\* search_grounding of the call, which ChatRequest of models/dto.py does not
\* declare, is left out.
SendMessage ==
    /\ client /= <<>>
    /\ ~client.busy
    /\ ~IsRunning(client.w)
    /\ client.sends < MaxSends
    /\ LET conv == IF IsSome(client.cur) THEN Get(client.cur)
                   ELSE NewConversationId(client.sends + 1)
       IN client' = [client EXCEPT
                        !.cur = Some(conv),
                        !.view = IF client.view = None /\ client.cur = None
                                 THEN Some(conv) ELSE @,
                        !.msgs = @ \o <<ChatMessage("user", <<"p">>),
                                        ChatMessage("assistant", <<>>)>>,
                        !.busy = TRUE,
                        !.sends = @ + 1,
                        !.w = NewWorker(conv)]
    /\ UNCHANGED <<ext, keyIn, keyOut, now, cache, nextId, envTtl, lastOp, convs,
                   messages, rq, loop>>

\* one iteration of the loop of run over client.stream: a data line with a
\* non-empty chunk.  event is "chunk" for a chunk of the generation and
\* "error" for the line the router writes when the generator raised, after
\* which the response body ends.
WorkerChunk(chunk, event) ==
    /\ client /= <<>>
    /\ client.w.pc = "stream"
    /\ client.w.srv = "open"
    /\ event = "chunk" => (chunk \in StreamChunks /\ client.w.received < MaxStreamChunks)
    /\ event = "error" => chunk = ErrorChunk
    /\ client' = [client EXCEPT !.w =
                    [@ EXCEPT !.received = @ + 1,
                              !.full_text = Append(@, chunk),
                              !.signals = Append(@, "chunk_received"),
                              !.srv = IF event = "error" THEN "ended" ELSE @,
                              !.serverFailed = (event = "error")]]
    /\ UNCHANGED <<ext, keyIn, keyOut, now, cache, nextId, envTtl, lastOp, convs,
                   messages, rq, loop>>

\* the response body ends: success with the accumulated text
WorkerStreamEnd ==
    /\ client /= <<>>
    /\ client.w.pc = "stream"
    /\ client' = Terminal(client, "success",
                          Some(StreamResult(client.w.conv, client.w.full_text, "completed")))
    /\ UNCHANGED <<ext, keyIn, keyOut, now, cache, nextId, envTtl, lastOp, convs,
                   messages, rq, loop>>

\* client.stream raises ApiError (an httpx.HTTPError: no connection, or the
\* connection lost between chunks): the generate fallback if nothing was
\* received, failed otherwise
WorkerStreamApiError ==
    /\ client /= <<>>
    /\ client.w.pc = "stream"
    /\ client.w.srv = "open"
    /\ client' = IF client.w.received = 0
                 THEN [client EXCEPT !.w = [@ EXCEPT !.pc = "generate",
                                                     !.usedGenerate = TRUE]]
                 ELSE Terminal(client, "failed", None)
    /\ UNCHANGED <<ext, keyIn, keyOut, now, cache, nextId, envTtl, lastOp, convs,
                   messages, rq, loop>>

\* the server answers POST /chat/stream with a status of 400 or more (a
\* dependency of the route raised, or the request was rejected): the error
\* raised inside _raise_for_status is not an ApiError and leaves run.
\* finished tells whether the thread still emits finished.
WorkerStreamStatusError(finished) ==
    /\ client /= <<>>
    /\ client.w.pc = "stream"
    /\ client.w.received = 0
    /\ client.w.srv = "open"
    /\ client' = IF StreamStatusErrorIsApiError
                 THEN [client EXCEPT !.w = [@ EXCEPT !.pc = "generate",
                                                     !.usedGenerate = TRUE]]
                 ELSE [client EXCEPT !.w = [@ EXCEPT !.pc = "died"],
                                     !.queue = IF finished
                                               THEN Append(@, [sig |-> "finished", result |-> None])
                                               ELSE @]
    /\ UNCHANGED <<ext, keyIn, keyOut, now, cache, nextId, envTtl, lastOp, convs,
                   messages, rq, loop>>

\* client.generate in the fallback: a response, whose conversation id and
\* status are the server's, or ApiError
WorkerGenerate(ok, status) ==
    /\ client /= <<>>
    /\ client.w.pc = "generate"
    /\ client' = IF ok
                 THEN Terminal(client, "success",
                               Some(StreamResult(client.w.conv, <<"g">>, status)))
                 ELSE Terminal(client, "failed", None)
    /\ UNCHANGED <<ext, keyIn, keyOut, now, cache, nextId, envTtl, lastOp, convs,
                   messages, rq, loop>>

\* _on_stream_success, run by the GUI thread when the queued signal is
\* delivered
OnStreamSuccess ==
    /\ client /= <<>>
    /\ client.queue /= <<>>
    /\ Head(client.queue).sig = "success"
    /\ LET result == Get(Head(client.queue).result)
       IN client' = [client EXCEPT
                        !.queue = Tail(@),
                        !.msgs = IF @ /= <<>> /\ @[Len(@)].role = "assistant"
                                 THEN [@ EXCEPT ![Len(@)].text = result.text]
                                 ELSE Append(@, ChatMessage("assistant", result.text)),
                        !.cur = Some(result.conversation_id)]
    /\ UNCHANGED <<ext, keyIn, keyOut, now, cache, nextId, envTtl, lastOp, convs,
                   messages, rq, loop>>

\* _on_stream_failed
OnStreamFailed ==
    /\ client /= <<>>
    /\ client.queue /= <<>>
    /\ Head(client.queue).sig = "failed"
    /\ client' = [client EXCEPT
                     !.queue = Tail(@),
                     !.msgs = IF @ /= <<>> /\ @[Len(@)].role = "assistant"
                                 /\ @[Len(@)].text = <<>>
                              THEN SubSeq(@, 1, Len(@) - 1) ELSE @]
    /\ UNCHANGED <<ext, keyIn, keyOut, now, cache, nextId, envTtl, lastOp, convs,
                   messages, rq, loop>>

\* _on_stream_finished: _set_busy_state(False)
OnStreamFinished ==
    /\ client /= <<>>
    /\ client.queue /= <<>>
    /\ Head(client.queue).sig = "finished"
    /\ client' = [client EXCEPT !.queue = Tail(@), !.busy = FALSE]
    /\ UNCHANGED <<ext, keyIn, keyOut, now, cache, nextId, envTtl, lastOp, convs,
                   messages, rq, loop>>

\* the window after __init__: no conversation chosen, no worker.  view is
\* the conversation the list state.messages was loaded or started for.
InitClient ==
    /\ client = [cur |-> None, msgs |-> <<>>, view |-> None, busy |-> FALSE,
                 sends |-> 0, w |-> NoWorker, queue |-> <<>>]
    /\ ext = <<>>
    /\ keyIn = <<>>
    /\ keyOut = <<>>
    /\ now = 0
    /\ cache = <<>>
    /\ nextId = 1
    /\ envTtl = "unset"
    /\ lastOp = NoOp
    /\ convs = {0}
    /\ messages = <<>>
    /\ rq = [r \in Reqs |-> IdleRq]
    /\ loop = 0

NextClient ==
    \/ NewChat
    \/ \E conv \in ServerConvs, ok \in BOOLEAN, history \in Histories :
          LoadHistory(conv, ok, history)
    \/ SendMessage
    \/ \E chunk \in StreamChunks \cup {ErrorChunk}, event \in {"chunk", "error"} :
          WorkerChunk(chunk, event)
    \/ WorkerStreamEnd
    \/ WorkerStreamApiError
    \/ \E finished \in BOOLEAN : WorkerStreamStatusError(finished)
    \/ \E ok \in BOOLEAN, status \in {"completed"} : WorkerGenerate(ok, status)
    \/ OnStreamSuccess
    \/ OnStreamFailed
    \/ OnStreamFinished

SpecClient == InitClient /\ [][NextClient]_vars

-----------------------------------------------------------------------------
(* Properties of the orchestrator (Spec) *)

HasAssistantTurn(conv, text) ==
    \E i \in 1..Len(messages) : messages[i] = MessageRow(conv, "assistant", text, 0)

\* C1: a single-shot request that finds a live entry at CacheCheck makes no
\* call to the backend (neither generate nor upload), appends an assistant
\* turn with the cached text and returns status "cached".
C1_CacheHitShortCircuit ==
    \A r \in Reqs :
        (rq[r].kind = "single" /\ IsSome(rq[r].hit)) =>
            /\ rq[r].pc = "done"
            /\ rq[r].status = "cached"
            /\ rq[r].text = Get(rq[r].hit)
            /\ rq[r].genCalls = 0
            /\ rq[r].uploadCalls = 0
            /\ HasAssistantTurn(rq[r].conv, Get(rq[r].hit))

\* C2: when the backend call of a single-shot request raises and the lookup
\* of the except branch finds an entry, the request returns status
\* "cached_offline" with the cached text and raises nothing.
C2_FallbackOnFailure ==
    \A r \in Reqs :
        (rq[r].kind = "single" /\ rq[r].backendFailed /\ IsSome(rq[r].fbHit)) =>
            /\ rq[r].pc = "done"
            /\ rq[r].status = "cached_offline"
            /\ rq[r].text = Get(rq[r].fbHit)
            /\ rq[r].error = ""

\* C3: a single-shot request whose backend call raises, with no row for its
\* key at CacheCheck nor at Fallback, ends by raising the backend's error
\* after exactly one generate call, has written nothing to the cache, and
\* the cache store is as it was when the request began.
C3_NoCacheFailure ==
    [][\A r \in Reqs :
          ( /\ rq[r].kind = "single"
            /\ rq[r].pc = "fallback"
            /\ rq'[r].pc /= "fallback"
            /\ ~rq'[r].rowAtCheck
            /\ ~rq'[r].rowAtFallback ) =>
              /\ rq'[r].pc = "failed"
              /\ rq'[r].error = "BackendError"
              /\ rq'[r].status = ""
              /\ rq'[r].genCalls = 1
              /\ rq'[r].writeSeq = 0
              /\ cache' = rq[r].cache0]_vars

C3_Witness ==
    \E r \in Reqs :
        /\ rq[r].kind = "single"
        /\ rq[r].pc = "failed"
        /\ rq[r].error = "BackendError"
        /\ rq[r].backendFailed
        /\ ~rq[r].rowAtCheck
        /\ ~rq[r].rowAtFallback
        /\ cache /= <<>>

-----------------------------------------------------------------------------
(* Properties of make_request_key (SpecKey) *)

\* the per-attachment digests of a payload, in list order
Digests(p) == [i \in 1..Len(p.file_paths) |-> _compute_file_hash(p.file_paths[i])]

\* the instructions of a payload with absent read as the empty string
InstructionText(p) == IF p.instructions = None THEN "" ELSE p.instructions[1]

\* C4 as stated: requests that agree on model, input, instructions and the
\* ordered digests get the same key, and requests that differ in any of
\* them get different keys.
C4_AnyDifferenceChangesKey ==
    keyOut /= <<>> =>
        LET p1 == keyIn[1]
            p2 == keyIn[2]
            same == /\ p1.model = p2.model
                    /\ p1.input = p2.input
                    /\ p1.instructions = p2.instructions
                    /\ Digests(p1) = Digests(p2)
        IN (keyOut[1] = keyOut[2]) <=> same

\* C4 amended: the key is a function of model, input, the instructions with
\* absent read as the empty string, and the ordered digests: requests that
\* agree on these get the same key, requests that differ in one of them
\* (count, order and content of the attachments included) get different keys.
C4_KeyOfNormalizedFields ==
    keyOut /= <<>> =>
        LET p1 == keyIn[1]
            p2 == keyIn[2]
            same == /\ p1.model = p2.model
                    /\ p1.input = p2.input
                    /\ InstructionText(p1) = InstructionText(p2)
                    /\ Digests(p1) = Digests(p2)
        IN (keyOut[1] = keyOut[2]) <=> same

C4_Witness ==
    /\ keyOut /= <<>>
    /\ keyIn[1].file_paths = <<"a.pdf", "b.docx">>
    /\ keyIn[2].file_paths = <<"b.docx", "a2.pdf">>
    /\ keyIn[1].model = keyIn[2].model
    /\ keyIn[1].input = keyIn[2].input
    /\ keyIn[1].instructions = keyIn[2].instructions
    /\ keyOut[1] /= keyOut[2]

\* C5: for every model, input and attachment list, the key with instructions
\* absent equals the key with instructions the empty string.
C5_InstructionsEquivalence ==
    ( /\ keyOut /= <<>>
      /\ keyIn[1].model = keyIn[2].model
      /\ keyIn[1].input = keyIn[2].input
      /\ keyIn[1].file_paths = keyIn[2].file_paths
      /\ keyIn[1].instructions = None
      /\ keyIn[2].instructions = Some("") ) => keyOut[1] = keyOut[2]

C5_Witness ==
    /\ keyOut /= <<>>
    /\ keyIn[1].instructions = None
    /\ keyIn[2].instructions = Some("")
    /\ keyIn[1].model = keyIn[2].model
    /\ keyIn[1].input = keyIn[2].input
    /\ keyIn[1].file_paths = keyIn[2].file_paths
    /\ keyIn[1].file_paths = <<"gone.pdf", "a.pdf">>
    /\ keyOut[1] = keyOut[2]

-----------------------------------------------------------------------------
(* Properties of the cache store (SpecCache) *)

\* the last call was a lookup / a store
GetDone == lastOp.op = "get"
StepIsGet == lastOp'.n > lastOp.n /\ lastOp'.op = "get"
StepIsStore == lastOp'.n > lastOp.n /\ lastOp'.op = "store"

RowsOfKey(rows, k) == {i \in 1..Len(rows) : rows[i].request_key = k}
RowIds(rows) == {rows[i].id : i \in 1..Len(rows)}

\* C6: after store_cached_response(k, ..., response_text = t), with no later
\* write to k, get_cached_response(k) called before the entry's expires_at
\* (or with expires_at unset) returns an entry whose response_text is t.
C6_CacheRoundTrip ==
    (GetDone /\ IsSome(lastOp.stored[lastOp.key])) =>
        LET st == Get(lastOp.stored[lastOp.key])
        IN (~IsSome(st.expires_at) \/ lastOp.t < Get(st.expires_at)) =>
               /\ IsSome(lastOp.result)
               /\ Get(lastOp.result).response_text = st.response_text

C6_Witness ==
    /\ GetDone
    /\ IsSome(lastOp.stored[lastOp.key])
    /\ IsSome(Get(lastOp.stored[lastOp.key]).expires_at)
    /\ lastOp.t < Get(Get(lastOp.stored[lastOp.key]).expires_at)
    /\ lastOp.t > 0
    /\ IsSome(lastOp.result)
    /\ Get(lastOp.result).response_text = <<"t2">>
    /\ Get(lastOp.result).id = 1
    /\ nextId = 2
    /\ lastOp.n = 3

\* C7 as stated: a lookup of k that finds a row whose expires_at has passed
\* returns none and leaves no row with key k, and a row leaves the table
\* only in such a lookup.
C7_LazyExpiry ==
    [][ /\ (StepIsGet /\ \E i \in RowsOfKey(cache, lastOp'.key) :
                            IsSome(cache[i].expires_at) /\ Get(cache[i].expires_at) < now) =>
              /\ lastOp'.result = None
              /\ RowsOfKey(cache', lastOp'.key) = {}
        /\ \A i \in 1..Len(cache) :
              cache[i].id \notin RowIds(cache') =>
                  /\ StepIsGet
                  /\ cache[i].request_key = lastOp'.key
                  /\ IsSome(cache[i].expires_at)
                  /\ Get(cache[i].expires_at) < now ]_vars

\* C7 amended: a lookup of k that finds a row whose expires_at has passed
\* returns none; the row is deleted by that call, so that no row with key k
\* remains, unless the delete or its commit raises, in which case the error
\* is swallowed and the table is left as it was.  A row leaves the table
\* only in such a lookup, never in a store or with the passing of time.
C7_LazyExpiryBestEffort ==
    [][ /\ (StepIsGet /\ \E i \in RowsOfKey(cache, lastOp'.key) :
                            IsSome(cache[i].expires_at) /\ Get(cache[i].expires_at) < now) =>
              /\ lastOp'.result = None
              /\ lastOp'.deleteOk => RowsOfKey(cache', lastOp'.key) = {}
              /\ ~lastOp'.deleteOk => cache' = cache
        /\ \A i \in 1..Len(cache) :
              cache[i].id \notin RowIds(cache') =>
                  /\ StepIsGet
                  /\ cache[i].request_key = lastOp'.key
                  /\ IsSome(cache[i].expires_at)
                  /\ Get(cache[i].expires_at) < now ]_vars

C7_Witness ==
    /\ GetDone
    /\ lastOp.deleteOk
    /\ lastOp.result = None
    /\ IsSome(lastOp.stored[lastOp.key])
    /\ RowsOfKey(cache, lastOp.key) = {}
    /\ Len(cache) = 1

\* C8 as stated: a row is returned only if its expires_at is null or
\* strictly later than the time of the call.
C8_EligibleStrictlyFuture ==
    (GetDone /\ IsSome(lastOp.result)) =>
        \/ ~IsSome(Get(lastOp.result).expires_at)
        \/ Get(Get(lastOp.result).expires_at) > lastOp.t

\* C8 amended: a row is returned only if its expires_at is null or not
\* earlier than the time of the call: a row whose expires_at lies in the
\* past is never returned, one whose expires_at equals the current time
\* still is.
C8_EligibleNotPast ==
    (GetDone /\ IsSome(lastOp.result)) =>
        \/ ~IsSome(Get(lastOp.result).expires_at)
        \/ Get(Get(lastOp.result).expires_at) >= lastOp.t

C8_Witness ==
    /\ GetDone
    /\ IsSome(lastOp.result)
    /\ Get(lastOp.result).expires_at = Some(lastOp.t)
    /\ lastOp.t > 0

\* the row holds what the store call of lastOp' wrote, at the current time
WrittenBy(row, op, t) ==
    /\ row.request_key = op.key
    /\ row.model = op.args.model
    /\ row.input_text = op.args.input_text
    /\ row.instructions = op.args.instructions
    /\ row.file_hashes = op.args.file_hashes
    /\ row.response_text = op.args.response_text
    /\ row.created_at = t
    /\ row.expires_at = ExpiresAt(EffectiveTtl(op.ttl, envTtl), t)

\* C9: store_cached_response(k, ...) on a table that has a row with key k,
\* live or expired, overwrites that row's model, input_text, instructions,
\* file_hashes, response_text, created_at and expires_at, keeps its id and
\* the number of rows; on a table without such a row it adds exactly one
\* row, with a fresh id.  Rows with other keys are left as they were.
C9_UpsertInPlace ==
    [][ StepIsStore =>
          /\ Len(cache') >= Len(cache)
          /\ \A i \in 1..Len(cache) :
                cache[i].request_key /= lastOp'.key => cache'[i] = cache[i]
          /\ IF RowsOfKey(cache, lastOp'.key) /= {}
             THEN /\ Len(cache') = Len(cache)
                  /\ \A i \in RowsOfKey(cache, lastOp'.key) :
                        /\ cache'[i].id = cache[i].id
                        /\ WrittenBy(cache'[i], lastOp', now)
             ELSE /\ Len(cache') = Len(cache) + 1
                  /\ cache'[Len(cache')].id \notin RowIds(cache)
                  /\ WrittenBy(cache'[Len(cache')], lastOp', now) ]_vars

C9_Witness ==
    /\ lastOp.op = "store"
    /\ lastOp.n = 3
    /\ Len(cache) = 2
    /\ nextId = 3
    /\ cache[1].request_key = lastOp.key
    /\ cache[1].id = 1
    /\ cache[1].created_at > cache[2].created_at
    /\ cache[1].response_text = <<"t2">>
    /\ cache[2].response_text = <<"t1">>

-----------------------------------------------------------------------------
(* Races between requests (Spec) *)

\* the text a request handed to store_cached_response
WrittenText(q) == IF q.kind = "single" THEN q.text ELSE q.full_text

\* C10: when two requests with the same key both miss the cache, both call
\* the backend and both store their result, then once both have completed
\* the key has one row, it holds the text of the later of the two writes,
\* and a lookup of the key returns that text for as long as the row has not
\* expired.
C10_LastWriteWins ==
    \A r1 \in Reqs, r2 \in Reqs :
        ( /\ rq[r1].key = rq[r2].key
          /\ rq[r1].pc = "done" /\ rq[r2].pc = "done"
          /\ rq[r1].hit = None /\ rq[r2].hit = None
          /\ rq[r1].genCalls > 0 /\ rq[r2].genCalls > 0
          /\ rq[r1].writeSeq > 0
          /\ rq[r1].writeSeq < rq[r2].writeSeq ) =>
            LET k == rq[r2].key
                res == get_cached_response(cache, k, now, TRUE)
            IN /\ Cardinality(RowsOfKey(cache, k)) = 1
               /\ \A i \in RowsOfKey(cache, k) :
                     /\ cache[i].response_text = WrittenText(rq[r2])
                     /\ IF IsSome(cache[i].expires_at) /\ Get(cache[i].expires_at) < now
                        THEN res.result = None
                        ELSE /\ IsSome(res.result)
                             /\ Get(res.result).response_text = WrittenText(rq[r2])

C10_Witness ==
    /\ rq[1].kind = "stream" /\ rq[2].kind = "stream"
    /\ rq[1].key = rq[2].key
    /\ rq[1].pc = "done" /\ rq[2].pc = "done"
    /\ ~rq[1].rowAtCheck /\ ~rq[2].rowAtCheck
    /\ rq[1].writeSeq = 2 /\ rq[2].writeSeq = 1
    /\ rq[1].full_text = <<"x">> /\ rq[2].full_text = <<"x", "x">>
    /\ Len(cache) = 1
    /\ cache[1].response_text = <<"x">>

-----------------------------------------------------------------------------
(* Failures and streaming (Spec) *)

\* C11: a streaming request whose backend stream raises re-runs the lookup;
\* when it finds an entry the request ends normally, the cached text is the
\* last chunk delivered and it is the assistant turn of the conversation;
\* when it finds none the request ends by raising the backend's error.
C11_StreamFallback ==
    \A r \in Reqs :
        ( /\ rq[r].kind = "stream"
          /\ rq[r].backendFailed
          /\ rq[r].pc \in {"done", "failed"} ) =>
            IF IsSome(rq[r].fbHit)
            THEN /\ rq[r].pc = "done"
                 /\ rq[r].out /= <<>>
                 /\ rq[r].out[Len(rq[r].out)] = Get(rq[r].fbHit)
                 /\ HasAssistantTurn(rq[r].conv, Get(rq[r].fbHit))
            ELSE /\ rq[r].pc = "failed"
                 /\ rq[r].error = "BackendError"

HasUserTurn(conv, text) ==
    \E i \in 1..Len(messages) : messages[i] = MessageRow(conv, "user", text, 0)

\* C12: after a request has ended by raising the backend's error with no
\* cache entry for its key at the fallback lookup, the user turn it recorded
\* at its start is in the history of its conversation.
C12_FailedKeepsUserTurn ==
    \A r \in Reqs :
        ( /\ rq[r].pc = "failed"
          /\ rq[r].backendFailed
          /\ ~rq[r].rowAtFallback ) =>
            HasUserTurn(rq[r].conv, <<rq[r].payload.input>>)

\* the attachments of the requests whose extension is outside the mapping
NoMimeMapping(path) == path \in {"b.txt"}

\* the positions of such attachments in a list
UnmappedAt(paths) == {i \in 1..Len(paths) : NoMimeMapping(paths[i])}

\* the attachments before position i that are sent to the upload API
UploadsBefore(paths, i) == Cardinality({j \in 1..(i - 1) : ~IsDocx(paths[j])})

RECURSIVE Concat(_)
Concat(chunks) == IF chunks = <<>> THEN <<>> ELSE Head(chunks) \o Concat(Tail(chunks))

\* C14: in a streaming request that missed the cache, a step that takes a
\* chunk from the backend writes neither a message nor a cache row, and
\* either skips the chunk (it has no text) or hands it to the caller at
\* once, suspending before the next chunk is asked for; the step on which
\* the backend stream ends appends the assistant turn, and stores the cache
\* row unless the store raises, both with the concatenation of the chunks
\* delivered.
C14_StreamingMiss ==
    [][\A r \in Reqs :
          (rq[r].kind = "stream" /\ rq[r].pc = "stream") =>
            /\ (rq'[r].pc = "stream" /\ rq'[r].chunks /= rq[r].chunks) =>
                  /\ messages' = messages
                  /\ cache' = cache
                  /\ \/ rq'[r].out = rq[r].out
                     \/ /\ \E c \in ChunkTexts \ {<<>>} : rq'[r].out = Append(rq[r].out, c)
                        /\ loop' = 0
                  /\ rq'[r].full_text = Concat(rq'[r].out)
            /\ rq'[r].pc = "done" =>
                  /\ rq'[r].out = rq[r].out
                  /\ Len(messages') = Len(messages) + 1
                  /\ messages'[Len(messages')] =
                         MessageRow(rq[r].conv, "assistant", Concat(rq[r].out), 0)
                  /\ rq'[r].writeSeq > 0 =>
                         /\ Cardinality(RowsOfKey(cache', rq[r].key)) = 1
                         /\ \A i \in RowsOfKey(cache', rq[r].key) :
                               cache'[i].response_text = Concat(rq[r].out)
                  /\ rq'[r].writeSeq = 0 => cache' = cache]_vars

C14_Witness ==
    \E r \in Reqs :
        /\ rq[r].kind = "stream"
        /\ rq[r].pc = "done"
        /\ rq[r].hit = None
        /\ ~rq[r].backendFailed
        /\ rq[r].out = << <<"x">>, <<"x">> >>
        /\ rq[r].writeSeq > 0
        /\ HasAssistantTurn(rq[r].conv, <<"x", "x">>)
        /\ \E i \in RowsOfKey(cache, rq[r].key) : cache[i].response_text = <<"x", "x">>

\* C15: a streaming request whose lookup at CacheCheck returned a live entry
\* has ended, has delivered exactly one chunk, the full cached text, has
\* that text as a committed assistant turn of its conversation after its
\* user turn, and has made no upload and no generate call.
C15_StreamingHit ==
    \A r \in Reqs :
        (rq[r].kind = "stream" /\ IsSome(rq[r].hit)) =>
            /\ rq[r].pc = "done"
            /\ rq[r].out = <<Get(rq[r].hit)>>
            /\ rq[r].error = ""
            /\ rq[r].genCalls = 0
            /\ rq[r].uploadCalls = 0
            /\ ~rq[r].backendFailed
            /\ HasUserTurn(rq[r].conv, <<rq[r].payload.input>>)
            /\ HasAssistantTurn(rq[r].conv, Get(rq[r].hit))

C15_Witness ==
    \E r \in Reqs :
        /\ rq[r].kind = "stream"
        /\ rq[r].hit = Some(<<"t1">>)
        /\ rq[r].pc = "done"
        /\ rq[r].out = << <<"t1">> >>
        /\ messages[Len(messages)] = MessageRow(rq[r].conv, "assistant", <<"t1">>, 0)

C17_WriteFailureNonFatal ==
    [][\A r \in Reqs :
          ( /\ rq[r].pc \in {"invoke", "stream"}
            /\ rq'[r].pc \notin {"invoke", "stream", "interrupted"}
            /\ ~rq'[r].backendFailed
            /\ rq'[r].writeSeq = 0 ) =>
              /\ rq'[r].pc = "done"
              /\ cache' = cache
              /\ rq'[r].error = ""
              /\ rq[r].kind = "single" => rq'[r].status = "completed"
              /\ messages'[Len(messages')] =
                     MessageRow(rq[r].conv, "assistant", WrittenText(rq'[r]), 0)
              /\ \A i \in 1..Len(messages') : messages'[i].tx /= r]_vars

C17_Witness ==
    /\ rq[1].kind = "single" /\ rq[1].pc = "done" /\ rq[1].status = "completed"
    /\ rq[1].text = <<"t1">> /\ rq[1].writeSeq = 0 /\ rq[1].genCalls = 1
    /\ rq[2].kind = "stream" /\ rq[2].pc = "done" /\ rq[2].hit = None
    /\ rq[2].full_text = <<"x">> /\ rq[2].writeSeq = 0 /\ ~rq[2].backendFailed
    /\ cache = <<>>
    /\ HasAssistantTurn(rq[1].conv, <<"t1">>)
    /\ HasAssistantTurn(rq[2].conv, <<"x">>)

\* a row for the key that a lookup at time t returns
LiveRow(rows, key, t) ==
    FirstMatch(rows, key) /= 0 /\ ~Expired(rows[FirstMatch(rows, key)], t)

\* C18: a CacheCheck step that ends without a hit leaves the request at
\* BuildContent with no error, nothing delivered, no backend call made and
\* no message appended; when the key had a live row, so that the lookup can
\* only have raised, the step changes neither the messages nor the cache;
\* and a request without a hit ends done only after a call to the backend.
C18_LookupFailureIsMiss ==
    [][\A r \in Reqs :
          /\ (rq[r].pc = "check" /\ rq'[r].pc /= "check" /\ rq'[r].hit = None) =>
                /\ rq'[r].pc = "build"
                /\ rq'[r].error = ""
                /\ rq'[r].out = <<>>
                /\ rq'[r].genCalls = 0
                /\ Len(messages') = Len(messages)
                /\ LiveRow(cache, rq[r].key, now) =>
                      (messages' = messages /\ cache' = cache)
          /\ (rq'[r].hit = None /\ rq'[r].pc = "done") => rq'[r].genCalls = 1
          /\ rq'[r].error \in {"", "BackendError", "FileNotFoundError",
                                "ValueError", "UploadError"}]_vars

\* the second request's lookup raised on a live row: it called the backend
C18_Witness ==
    /\ rq[1].pc = "done" /\ rq[1].writeSeq = 1
    /\ rq[2].payload = rq[1].payload
    /\ rq[2].kind = "stream"
    /\ rq[2].cache0 = cache
    /\ LiveRow(cache, rq[2].key, now)
    /\ rq[2].rowAtCheck
    /\ rq[2].hit = None
    /\ rq[2].pc = "done"
    /\ rq[2].genCalls = 1
    /\ rq[2].writeSeq = 0

\* the statuses generate_chat_response passes to ChatResponse
ResponseStatuses == {"completed", "cached", "cached_offline"}

\* C19: every response a single-shot request has returned carries one of the
\* statuses "completed", "cached", "cached_offline", and the response type
\* accepts each of the three.
C19_StatusSet ==
    /\ \A r \in Reqs :
          (rq[r].kind = "single" /\ rq[r].pc = "done") => rq[r].status \in ResponseStatuses
    /\ \A s \in ResponseStatuses : ChatResponseValid(s)

-----------------------------------------------------------------------------
(* The TTL rule (SpecCache) *)

\* the TTL in force for the last store: the argument, or the configured
\* default, 30 when the setting is missing or no integer
TtlInForce ==
    IF IsSome(lastOp.ttl) THEN Get(lastOp.ttl)
    ELSE IF envTtl \in {"unset", "abc"} THEN 30
    ELSE EnvTtlDays(envTtl)

\* C20: after a call of store_cached_response the key has a row whose
\* expires_at is unset when the TTL in force is zero or negative, and is
\* the write time plus that many days when it is positive.
C20_TtlRule ==
    lastOp.op \in {"store", "store_raised"} =>
        /\ FirstMatch(cache, lastOp.key) /= 0
        /\ cache[FirstMatch(cache, lastOp.key)].expires_at =
               IF TtlInForce <= 0 THEN None ELSE Some(lastOp.t + TtlInForce)

-----------------------------------------------------------------------------
(* Properties of the document text extractor (SpecExtract) *)

ExtractDone(kind) == ext /= <<>> /\ ext.pc = "done" /\ ext.file.kind = kind

PrimaryPart(file) == IF file.kind = "docx" THEN file.document ELSE file.sheet

\* C21: the extraction of a DOCX or XLSX file that is not a valid ZIP
\* archive, or whose primary XML part (main document body, worksheet) does
\* not parse, ends in an error propagated to the caller and not in a
\* returned text.
C21_ExtractionFailureSurfaced ==
    (/\ ext /= <<>>
     /\ ext.pc = "done"
     /\ \/ ~ext.file.zip
        \/ PrimaryPart(ext.file).state = "unparsable")
    => ext.error /= ""

NonEmptyRows(sheet) == sheet.len - Cardinality(sheet.gaps)

\* the extracted lines are the first n non-empty rows in document order
FirstDataLines(lines, n, sheet) ==
    /\ Len(lines) >= n
    /\ \A k \in 1..n : lines[k][1] = "row"
    /\ \A k \in 1..(n - 1) : lines[k][2] < lines[k + 1][2]
    /\ n > 0 =>
         {lines[k][2] : k \in 1..n} = {i \in 1..lines[n][2] : i \notin sheet.gaps}

\* C22: for a worksheet with more than 600 non-empty rows the extracted
\* sheet has exactly 600 data lines, the first 600 non-empty rows in
\* document order, followed by exactly one truncation marker line.
C22_XlsxTruncation ==
    (/\ ExtractDone("xlsx")
     /\ ext.file.zip
     /\ ext.file.sheet.state = "xml"
     /\ NonEmptyRows(ext.file.sheet.body) > XLSX_MAX_ROWS)
    => /\ ext.error = ""
       /\ ext.chunk /= None
       /\ ext.chunk[1].lines = ext.rows
       /\ Len(ext.rows) = XLSX_MAX_ROWS + 1
       /\ FirstDataLines(ext.rows, XLSX_MAX_ROWS, ext.file.sheet.body)
       /\ ext.rows[XLSX_MAX_ROWS + 1] = TruncationMarker

C22_Witness ==
    /\ ExtractDone("xlsx")
    /\ ext.file.zip
    /\ ext.file.sheet.state = "xml"
    /\ NonEmptyRows(ext.file.sheet.body) > XLSX_MAX_ROWS + 2
    /\ 2 \in ext.file.sheet.body.gaps
    /\ Len(ext.rows) = XLSX_MAX_ROWS + 1
    /\ ext.rows[2] = RowLine(3)
    /\ ext.rows[XLSX_MAX_ROWS + 1] = TruncationMarker

\* C23: the truncation marker is appended only if the sheet was truncated: a
\* worksheet with 600 or fewer non-empty rows (exactly 600 included) yields
\* its data lines and no marker row.
C23_MarkerOnlyIfTruncated ==
    (/\ ExtractDone("xlsx")
     /\ ext.file.zip
     /\ ext.file.sheet.state = "xml"
     /\ NonEmptyRows(ext.file.sheet.body) <= XLSX_MAX_ROWS)
    => /\ Len(ext.rows) = NonEmptyRows(ext.file.sheet.body)
       /\ FirstDataLines(ext.rows, Len(ext.rows), ext.file.sheet.body)
       /\ \A k \in 1..Len(ext.rows) : ext.rows[k] /= TruncationMarker

\* the paragraphs the DOCX statement speaks of: at least one text run with
\* text, tab elements anywhere, no break elements
PlainParagraph(nodes) ==
    /\ \E k \in 1..Len(nodes) : NodeText(nodes[k]) /= <<>>
    /\ \A k \in 1..Len(nodes) : nodes[k] /= "br"

\* C24: the runs of one paragraph are joined without a separator, the
\* paragraphs are joined by a single newline, and every tab element of a
\* paragraph appears as a tab character in the extracted text, wherever in
\* the paragraph it stands.
C24_DocxText ==
    (/\ ExtractDone("docx")
     /\ ext.file.zip
     /\ ext.file.document.state = "xml"
     /\ ext.file.header.state = "absent"
     /\ ext.file.document.body /= <<>>
     /\ \A k \in 1..Len(ext.file.document.body) :
            PlainParagraph(ext.file.document.body[k]))
    => /\ ext.error = ""
       /\ ext.text = Join([k \in 1..Len(ext.file.document.body) |->
                              RunText(ext.file.document.body[k])], <<Newline>>)

-----------------------------------------------------------------------------
(* Further properties of the orchestrator (Spec) *)

\* the text a finished request handed to its caller
ReturnedText(q) == IF q.kind = "single" THEN q.text ELSE Concat(q.out)

\* the rows of one conversation, in the order they were added
ConvRows(conv) == SelectSeq(messages, LAMBDA m : m.conversation_id = conv)

\* C25: a request that reaches Done has added to its conversation exactly one
\* user turn with the request input and, after it, exactly one assistant
\* turn with the returned text; a request that ends in failure has added no
\* assistant turn.  Stated for a request that has its conversation to itself.
C25_TurnOrdering ==
    \A r \in Reqs :
        (\A o \in Reqs \ {r} : rq[o].pc = "idle" \/ rq[o].conv /= rq[r].conv)
        => /\ rq[r].pc = "done"
              => ConvRows(rq[r].conv) =
                    <<MessageRow(rq[r].conv, "user", <<rq[r].payload.input>>, 0),
                      MessageRow(rq[r].conv, "assistant", ReturnedText(rq[r]), 0)>>
           /\ rq[r].pc = "failed"
              => \A i \in 1..Len(messages) :
                     messages[i].conversation_id = rq[r].conv
                     => messages[i].role /= "assistant"

\* C26: the cached response does not depend on the conversation: a response
\* stored by a request of one conversation is returned as a cache hit, with
\* no backend call, to a later request with the same key in another
\* conversation.
C26_ConversationIndependent ==
    \A r \in Reqs, o \in Reqs :
        (/\ rq[r].pc \in {"done", "failed"}
         /\ rq[o].writeSeq > 0
         /\ rq[o].conv /= rq[r].conv
         /\ rq[o].key = rq[r].key
         /\ rq[r].hit = Some(WrittenText(rq[o])))
        => /\ rq[r].pc = "done"
           /\ rq[r].genCalls = 0
           /\ ReturnedText(rq[r]) = WrittenText(rq[o])

\* C27: a cache hit leaves the cache store unchanged: a request whose lookup
\* found a live entry inserts, updates and deletes no row, in the lookup and
\* in every later step.
C27_HitLeavesCacheUnchanged ==
    [][\A r \in Reqs :
          (rq'[r] /= rq[r] /\ rq'[r].hit /= None) => cache' = cache]_vars

-----------------------------------------------------------------------------
(* Properties of the desktop client (SpecClient) *)

TerminalSignals == {"success", "failed"}

\* C28: when generate_chat_response_stream ends by raising, the worker ends
\* by emitting failed or by falling back to the generate call; it does not
\* emit success with status "completed" and the error message as text.
C28_ServerFailureReachesClient ==
    (/\ client /= <<>>
     /\ client.w.serverFailed
     /\ client.w.pc = "returned")
    => /\ client.w.signals[Len(client.w.signals)] = "failed" \/ client.w.usedGenerate
       /\ ~(/\ client.w.signals[Len(client.w.signals)] = "success"
            /\ Get(client.w.result).status = "completed"
            /\ \E i \in 1..Len(Get(client.w.result).text) :
                   Get(client.w.result).text[i] = ErrorChunk)

C30_OneTerminalSignal ==
    client /= <<>> =>
        LET w == client.w
            terminal == {i \in 1..Len(w.signals) : w.signals[i] \in TerminalSignals}
        IN /\ w.pc \in {"returned", "died"}
              => /\ Cardinality(terminal) = 1
                 /\ w.signals[Len(w.signals)] \in TerminalSignals
           /\ w.pc \in {"stream", "generate"} => terminal = {}
           /\ w.usedGenerate => w.received = 0

====
